---- MODULE Spec2Model ----
(***************************************************************************)
(* AssetContainer (Babylon.js): instantiateModelsToScene, addAllToScene,   *)
(* removeAllFromScene, dispose, moveAllFromScene.                          *)
(*                                                                         *)
(* Every engine object is identified by its uniqueId, a natural number     *)
(* handed out by the scene's counter.  Object references are modelled by   *)
(* these identifiers; null is 0 and the JavaScript value undefined is -1.  *)
(***************************************************************************)
EXTENDS Integers, Sequences, FiniteSets, TLC

\* ------------------------------------------------------------------ bounds
\* Largest number of bones of a skeleton.
MaxBones == 1
\* Largest number of targeted animations of an animation group.
MaxTargets == 1
\* Number of morph targets held by the morph-target manager.
NumMorphTargets == 1
\* Number of assets that exist per asset list in the asset-list scenarios.
MaxAssets == 2
\* Longest asset list: no call is made that would make a list longer.
MaxListLen == 4

\* createRootMesh is called at most this many times on a container.
MaxRootMeshes == 2
\* Number of assets that exist per asset list in the round-trip scenarios.
MaxRoundTripAssets == 3

\* ------------------------------------------------------------ the objects
Null == 0
Undefined == 0 - 1

TransformNodeIds == {1, 2}
MeshIds == {3, 4}
NodeIds == TransformNodeIds \cup MeshIds
SkeletonIds == {5, 6}
ManagerIds == {7}
AnimationGroupIds == {8, 9}
\* An object that is no node, mesh or morph target (a light, a material).
OtherIds == {10}
MorphTargetIds == {10 + i : i \in 1..NumMorphTargets}
\* Bone i of skeleton s, for the skeletons that exist before the call.
BoneId(s, i) == 10 + NumMorphTargets + (s - 5) * MaxBones + i
BoneIds == {BoneId(s, i) : s \in SkeletonIds, i \in 1..MaxBones}
OriginalIds ==
    NodeIds \cup SkeletonIds \cup ManagerIds \cup AnimationGroupIds
        \cup OtherIds \cup MorphTargetIds \cup BoneIds

SetMax(S) == CHOOSE x \in S : \A y \in S : y <= x
SetMin(S) == CHOOSE x \in S : \A y \in S : x <= y

\* The first identifier the scene hands out to an object created by a call.
FirstFreshId == SetMax(OriginalIds) + 1

RECURSIVE SortedSeq(_)
SortedSeq(S) ==
    IF S = {} THEN << >>
    ELSE LET m == SetMin(S) IN << m >> \o SortedSeq(S \ {m})

Range(s) == {s[i] : i \in 1..Len(s)}

\* Sequences without repetition over S, of length at most n.
RECURSIVE DistinctSeqs(_, _)
DistinctSeqs(S, n) ==
    IF n = 0 \/ S = {} THEN {<< >>}
    ELSE {<< >>} \cup
         UNION {{<< x >> \o t : t \in DistinctSeqs(S \ {x}, n - 1)} : x \in S}

\* Sequences over S of length lo..hi.
SeqsOfLen(S, lo, hi) == UNION {[1..n -> S] : n \in lo..hi}

\* The asset lists the container handles itself (AbstractScene's lists and
\* reflectionProbes, set up by the constructor).
Keys ==
    {"cameras", "lights", "meshes", "skeletons", "animations",
     "animationGroups", "multiMaterials", "materials", "morphTargetManagers",
     "geometries", "transformNodes", "actionManagers", "textures",
     "reflectionProbes"}

EmptyLists == [k \in Keys |-> << >>]

VARIABLES
    \* --- the scene and the container
    scene,          \* scene[k]: the scene's asset list k
    sceneEnv,       \* scene.environmentTexture
    container,      \* container[k]: the container's asset list k
    contEnv,        \* container.environmentTexture; Undefined while never assigned
    uniqueIdCounter,\* the scene's uniqueId counter (next identifier)
    disposed,       \* objects whose dispose() has run
    \* --- the objects (fields the container's code reads or writes)
    nodes,          \* id -> [kind, parent, skeleton, morphTargetManager, sourceMesh]
    skeletonObjs,   \* id -> [overrideMesh, bones]; bones[i] = _linkedTransformNode
    managerObjs,    \* id -> sequence of morph-target ids
    groupObjs,      \* id -> sequence of animation targets
    \* --- one instantiateModelsToScene call
    pc,             \* "idle", the loop being run, "done" or "thrown"
    idx,            \* index of the next element of the loop being run
    convertionMap,  \* original uniqueId -> clone uniqueId
    storeMap,       \* clone uniqueIds stored (storeMap[id] is object id)
    result,         \* InstantiatedEntries
    alreadySwapped, \* cloned skeletons whose bones were rewritten
    \* --- history, read by the properties only
    origin,         \* clone id -> the id of the object it was cloned from
    convWrites,     \* original id -> number of writes to convertionMap[id]
    swapCount,      \* cloned skeleton id -> number of bone-rewrite runs
    lastOp,         \* the last container operation that ran
    keepArg,        \* keepAssets lists passed to the last moveAllFromScene
    keepEnvArg,     \* keepAssets.environmentTexture of that call
    threw,          \* the last container operation ended with an exception
    pre             \* scene, container and nodes as they were before the last call

vars ==
    << scene, sceneEnv, container, contEnv, uniqueIdCounter, disposed,
       nodes, skeletonObjs, managerObjs, groupObjs,
       pc, idx, convertionMap, storeMap, result, alreadySwapped,
       origin, convWrites, swapCount, lastOp, keepArg, keepEnvArg, threw, pre >>

sceneVars == << scene, sceneEnv, container, contEnv, disposed >>
objectVars == << nodes, skeletonObjs, managerObjs, groupObjs >>
passVars == << pc, idx, convertionMap, storeMap, result, alreadySwapped >>
passHistory == << origin, convWrites, swapCount >>
opHistory == << lastOp, keepArg, keepEnvArg, threw, pre >>

\* ------------------------------------------------- one pass, as a record
\* The variables an instantiateModelsToScene call reads or writes.
PassState ==
    [nodes |-> nodes, skeletons |-> skeletonObjs, managers |-> managerObjs,
     groups |-> groupObjs, nextId |-> uniqueIdCounter, scene |-> scene,
     conv |-> convertionMap, store |-> storeMap, result |-> result,
     swapped |-> alreadySwapped, origin |-> origin, writes |-> convWrites,
     swaps |-> swapCount, thrown |-> FALSE]

\* f with f[k] set to v, k added to the domain when it is new.
Put(f, k, v) == [x \in DOMAIN f \cup {k} |-> IF x = k THEN v ELSE f[x]]

Push(list, x) == Append(list, x)

\* scene.getUniqueId()
GetUniqueId(st) == st.nextId

IsMesh(st, n) == st.nodes[n].kind = "Mesh"

\* AbstractMesh.isAnInstance: true for an InstancedMesh.
IsAnInstance(st, n) == st.nodes[n].kind = "InstancedMesh"

\* AbstractMesh.skeleton: an InstancedMesh answers with its source mesh's.
SkeletonOf(st, n) ==
    IF st.nodes[n].kind = "InstancedMesh"
    THEN st.nodes[st.nodes[n].sourceMesh].skeleton
    ELSE st.nodes[n].skeleton

\* node.getChildTransformNodes(true): the direct children, in scene order.
ChildTransformNodes(st, n) ==
    SortedSeq({m \in DOMAIN st.nodes : st.nodes[m].parent = n})

\* storeMap[convertionMap[id]]: undefined when either table misses.
Lookup(st, id) ==
    IF id \in DOMAIN st.conv /\ st.conv[id] \in st.store
    THEN st.conv[id]
    ELSE Undefined

\* convertionMap[source.uniqueId] = clone.uniqueId; storeMap[...] = clone
Register(st, source, clone) ==
    [st EXCEPT
        !.conv = Put(st.conv, source, clone),
        !.store = st.store \cup {clone},
        !.writes = Put(st.writes, source,
                       IF source \in DOMAIN st.writes
                       THEN st.writes[source] + 1 ELSE 1)]

\* MorphTargetManager.clone(): a new manager holding a clone of each target.
CloneManager(st, old) ==
    LET new == GetUniqueId(st)
        n == Len(st.managers[old])
        targets == [i \in 1..n |-> new + i]
    IN [st EXCEPT
           !.managers = Put(st.managers, new, targets),
           !.nextId = new + n + 1,
           !.scene = [st.scene EXCEPT !["morphTargetManagers"] = Push(@, new)],
           !.origin = [x \in DOMAIN st.origin \cup {new} \cup Range(targets) |->
                          IF x = new THEN old
                          ELSE IF x \in Range(targets)
                               THEN st.managers[old][x - new]
                               ELSE st.origin[x]]]

\* The loop over the targets of the old manager (lines 305-311).
RECURSIVE RegisterTargets(_, _, _, _)
RegisterTargets(st, old, new, index) ==
    IF index > Len(st.managers[old]) THEN st
    ELSE RegisterTargets(
             Register(st, st.managers[old][index], st.managers[new][index]),
             old, new, index + 1)

\* onClone(source, clone)
OnClone(st, source, clone) ==
    LET st1 == Register(st, source, clone)
    IN IF IsMesh(st1, clone) /\ st1.nodes[clone].morphTargetManager # Null
       THEN LET old == st1.nodes[source].morphTargetManager
                new == GetUniqueId(st1)
                st2 == CloneManager(st1, old)
                st3 == [st2 EXCEPT !.nodes[clone].morphTargetManager = new]
            IN RegisterTargets(st3, old, new, 1)
       ELSE st1

\* node.clone(name, newParent, true): the clone of one node, without its
\* children; the constructor adds it to the scene.
CloneNode(st, n, newParent) ==
    LET c == GetUniqueId(st)
        src == st.nodes[n]
        key == IF src.kind = "TransformNode" THEN "transformNodes" ELSE "meshes"
    IN [st EXCEPT
           !.nodes = Put(st.nodes, c, [src EXCEPT !.parent = newParent]),
           !.nextId = c + 1,
           !.scene = [st.scene EXCEPT ![key] = Push(@, c)],
           !.origin = Put(st.origin, c, n)]

\* node.instantiateHierarchy(newParent, options, onNewNodeCreated), with
\* options.doNotInstantiate: clone the node under newParent || this.parent,
\* report the pair, then instantiate each child under the clone.
RECURSIVE InstantiateHierarchy(_, _, _)
RECURSIVE InstantiateChildren(_, _, _, _)
InstantiateHierarchy(st, n, newParent) ==
    LET c == GetUniqueId(st)
        parent == IF newParent # Null THEN newParent ELSE st.nodes[n].parent
        st1 == OnClone(CloneNode(st, n, parent), n, c)
    IN InstantiateChildren(st1, ChildTransformNodes(st, n), 1, c)

InstantiateChildren(st, children, i, clone) ==
    IF i > Len(children) THEN st
    ELSE InstantiateChildren(InstantiateHierarchy(st, children[i], clone),
                             children, i + 1, clone)

\* RootIteration without the test of o.parent.
RootIterationAnyNode(st, o) ==
    LET newOne == GetUniqueId(st)
        st1 == InstantiateHierarchy(st, o, Null)
    IN [st1 EXCEPT !.result.rootNodes = Push(@, newOne)]

\* One iteration of transformNodes.forEach / meshes.forEach (lines 316-338).
RootIteration(st, o) ==
    IF st.nodes[o].parent = Null
    THEN LET newOne == GetUniqueId(st)
             st1 == InstantiateHierarchy(st, o, Null)
         IN [st1 EXCEPT !.result.rootNodes = Push(@, newOne)]
    ELSE st

\* Skeleton.clone(name): a new skeleton with a copy of every bone, each copy
\* linked to the transform node its source is linked to.  The copy of bone i
\* takes the i-th unique id after the skeleton's.
CloneSkeleton(st, s) ==
    LET c == GetUniqueId(st)
        n == Len(st.skeletons[s].bones)
    IN [st EXCEPT
           !.skeletons = Put(st.skeletons, c,
                             [overrideMesh |-> Null,
                              bones |-> st.skeletons[s].bones]),
           !.nextId = c + 1 + n,
           !.scene = [st.scene EXCEPT !["skeletons"] = Push(@, c)],
           !.origin = [x \in DOMAIN st.origin \cup (c..(c + n)) |->
                          IF x = c THEN s
                          ELSE IF x \in (c + 1)..(c + n) THEN BoneId(s, x - c)
                          ELSE st.origin[x]]]

\* ResolveOverrideMesh that keeps the source's override mesh on a miss.
ResolveOverrideMeshOrKeep(st, s, clone) ==
    IF st.skeletons[s].overrideMesh # Null
    THEN [st EXCEPT !.skeletons[clone].overrideMesh =
                        IF Lookup(st, st.skeletons[s].overrideMesh) # Undefined
                        THEN Lookup(st, st.skeletons[s].overrideMesh)
                        ELSE st.skeletons[s].overrideMesh]
    ELSE st

\* if (s.overrideMesh) clone.overrideMesh = storeMap[convertionMap[...]]
ResolveOverrideMesh(st, s, clone) ==
    IF st.skeletons[s].overrideMesh # Null
    THEN [st EXCEPT !.skeletons[clone].overrideMesh =
                        Lookup(st, st.skeletons[s].overrideMesh)]
    ELSE st

\* m.skeleton === s && !m.isAnInstance
IsBoundMesh(st, m, s) == SkeletonOf(st, m) = s /\ ~IsAnInstance(st, m)

\* SetSkeleton that leaves the copy bound to the source's skeleton.
SetSkeletonSkipped(st, copy, clone) == st

\* (copy as Mesh).skeleton = clone
SetSkeleton(st, copy, clone) == [st EXCEPT !.nodes[copy].skeleton = clone]

\* IsAlreadySwapped that never finds the clone.
NeverAlreadySwapped(st, clone) == FALSE

\* alreadySwapped.indexOf(clone) !== -1
IsAlreadySwapped(st, clone) == clone \in Range(st.swapped)

\* RewriteLink that keeps the link on a miss.
RewriteLinkOrKeep(st, link) ==
    IF link # Null /\ Lookup(st, link) # Undefined THEN Lookup(st, link) ELSE link

\* bone._linkedTransformNode = storeMap[convertionMap[...]] for a linked bone
RewriteLink(st, link) == IF link # Null THEN Lookup(st, link) ELSE link

\* alreadySwapped.push(clone) and the loop over clone.bones (lines 356-363)
SwapBones(st, clone) ==
    [st EXCEPT
        !.swapped = Push(@, clone),
        !.skeletons[clone].bones =
            [i \in 1..Len(@) |-> RewriteLink(st, @[i])],
        !.swaps = Put(st.swaps, clone,
                      IF clone \in DOMAIN st.swaps
                      THEN st.swaps[clone] + 1 ELSE 1)]

\* for (var m of this.meshes) { ... } of one skeleton (lines 347-365).
\* Writing .skeleton on a copy that is undefined throws a TypeError, which
\* ends the call.
RECURSIVE MeshLoop(_, _, _, _, _)
MeshLoop(st, s, clone, meshes, i) ==
    IF i > Len(meshes) THEN st
    ELSE LET m == meshes[i] IN
         IF IsBoundMesh(st, m, s)
         THEN LET copy == Lookup(st, m) IN
              IF copy = Undefined
              THEN [st EXCEPT !.thrown = TRUE]
              ELSE LET st1 == SetSkeleton(st, copy, clone) IN
                   IF IsAlreadySwapped(st1, clone)
                   THEN MeshLoop(st1, s, clone, meshes, i + 1)
                   ELSE MeshLoop(SwapBones(st1, clone), s, clone, meshes, i + 1)
         ELSE MeshLoop(st, s, clone, meshes, i + 1)

\* One iteration of skeletons.forEach (lines 340-368).
SkeletonIteration(st, s, meshes) ==
    LET clone == GetUniqueId(st)
        st1 == ResolveOverrideMesh(CloneSkeleton(st, s), s, clone)
        st2 == MeshLoop(st1, s, clone, meshes, 1)
    IN IF st2.thrown THEN st2
       ELSE [st2 EXCEPT !.result.skeletons = Push(@, clone)]

\* The converter handed to AnimationGroup.clone (lines 371-375):
\* newTarget || oldTarget
TargetConverter(st, oldTarget) ==
    LET newTarget == Lookup(st, oldTarget)
    IN IF newTarget # Undefined THEN newTarget ELSE oldTarget

\* AnimationGroup.clone(name, targetConverter): a new group with one
\* targeted animation per targeted animation of the source, its target the
\* converter's answer for the source's target.
CloneAnimationGroup(st, o) ==
    LET c == GetUniqueId(st)
    IN [st EXCEPT
           !.groups = Put(st.groups, c,
                          [i \in 1..Len(st.groups[o]) |->
                              TargetConverter(st, st.groups[o][i])]),
           !.nextId = c + 1,
           !.scene = [st.scene EXCEPT !["animationGroups"] = Push(@, c)],
           !.origin = Put(st.origin, c, o)]

\* One iteration of animationGroups.forEach (lines 370-378).
AnimationGroupIteration(st, o) ==
    LET clone == GetUniqueId(st)
    IN [CloneAnimationGroup(st, o) EXCEPT
           !.result.animationGroups = Push(@, clone)]

\* ------------------------------------------------ the position in a call
\* The four loops of the call, in the order of the code; and that order with
\* the skeletons taken first.
LoopsSkeletonsFirst == << "skeletons", "transformNodes", "meshes", "animationGroups" >>

Loops == << "transformNodes", "meshes", "skeletons", "animationGroups" >>

LoopNo(p) == CHOOSE i \in 1..Len(Loops) : Loops[i] = p

\* The loops after loop number n that have an element to visit.
LaterLoops(n) == {j \in (n + 1)..Len(Loops) : container[Loops[j]] # << >>}

\* Where the call stands after visiting element i of loop p: the next
\* element, the first element of the next loop that has one, or the return.
After(p, i) ==
    IF p # "idle" /\ i < Len(container[p]) THEN << p, i + 1 >>
    ELSE LET n == IF p = "idle" THEN 0 ELSE LoopNo(p) IN
         IF LaterLoops(n) = {} THEN << "done", 0 >>
         ELSE << Loops[SetMin(LaterLoops(n))], 1 >>

\* The variables take the values the pass state st holds.
Store(st) ==
    /\ nodes' = st.nodes
    /\ skeletonObjs' = st.skeletons
    /\ managerObjs' = st.managers
    /\ groupObjs' = st.groups
    /\ uniqueIdCounter' = st.nextId
    /\ scene' = st.scene
    /\ convertionMap' = st.conv
    /\ storeMap' = st.store
    /\ result' = st.result
    /\ alreadySwapped' = st.swapped
    /\ origin' = st.origin
    /\ convWrites' = st.writes
    /\ swapCount' = st.swaps

EmptyEntries == [rootNodes |-> << >>, skeletons |-> << >>, animationGroups |-> << >>]

\* instantiateModelsToScene is entered: its locals are set up (lines 285-292).
BeginInstantiate ==
    /\ pc = "idle"
    /\ convertionMap' = << >>
    /\ storeMap' = {}
    /\ result' = EmptyEntries
    /\ alreadySwapped' = << >>
    /\ pc' = After("idle", 0)[1]
    /\ idx' = After("idle", 0)[2]
    /\ UNCHANGED << scene, sceneEnv, container, contEnv, uniqueIdCounter,
                    disposed, objectVars, passHistory, opHistory >>

TransformNodeStep ==
    /\ pc = "transformNodes"
    /\ Store(RootIteration(PassState, container["transformNodes"][idx]))
    /\ pc' = After(pc, idx)[1]
    /\ idx' = After(pc, idx)[2]
    /\ UNCHANGED << sceneEnv, container, contEnv, disposed, opHistory >>

MeshStep ==
    /\ pc = "meshes"
    /\ Store(RootIteration(PassState, container["meshes"][idx]))
    /\ pc' = After(pc, idx)[1]
    /\ idx' = After(pc, idx)[2]
    /\ UNCHANGED << sceneEnv, container, contEnv, disposed, opHistory >>

SkeletonStep ==
    /\ pc = "skeletons"
    /\ LET st == SkeletonIteration(PassState, container["skeletons"][idx],
                                   container["meshes"])
       IN /\ Store(st)
          /\ pc' = IF st.thrown THEN "thrown" ELSE After(pc, idx)[1]
          /\ idx' = IF st.thrown THEN idx ELSE After(pc, idx)[2]
    /\ UNCHANGED << sceneEnv, container, contEnv, disposed, opHistory >>

AnimationGroupStep ==
    /\ pc = "animationGroups"
    /\ Store(AnimationGroupIteration(PassState, container["animationGroups"][idx]))
    /\ pc' = After(pc, idx)[1]
    /\ idx' = After(pc, idx)[2]
    /\ UNCHANGED << sceneEnv, container, contEnv, disposed, opHistory >>

\* ------------------------------------------ the container's asset lists
\* The position of the first o in list, 0 when it holds none (indexOf).
IndexOf(list, o) ==
    IF o \in Range(list)
    THEN SetMin({i \in 1..Len(list) : list[i] = o})
    ELSE 0

RemoveAt(list, i) == SubSeq(list, 1, i - 1) \o SubSeq(list, i + 1, Len(list))

\* The scene lists whose remove method moves the last element into the
\* place of the removed one; the others splice the element out.
SwapRemoved == {"meshes", "transformNodes", "materials", "geometries"}

\* scene.removeMesh(o), scene.removeLight(o), ...: the scene's list k after
\* the removal of o.
SceneRemove(k, list, o) ==
    LET i == IndexOf(list, o) IN
    IF i = 0 THEN list
    ELSE IF k \in SwapRemoved
         THEN SubSeq([list EXCEPT ![i] = list[Len(list)]], 1, Len(list) - 1)
         ELSE RemoveAt(list, i)

\* scene.addMesh(o), scene.addLight(o), ...: o is pushed.
SceneAdd(k, list, o) == Push(list, o)

\* this.<k>.forEach((o) => this.scene.add<K>(o))
RECURSIVE AddEach(_, _, _, _)
AddEach(k, list, assets, i) ==
    IF i > Len(assets) THEN list
    ELSE AddEach(k, SceneAdd(k, list, assets[i]), assets, i + 1)

\* this.<k>.forEach((o) => this.scene.remove<K>(o))
RECURSIVE RemoveEach(_, _, _, _)
RemoveEach(k, list, assets, i) ==
    IF i > Len(assets) THEN list
    ELSE RemoveEach(k, SceneRemove(k, list, assets[i]), assets, i + 1)

\* addAllToScene: the scene's lists after the fourteen loops (lines 387-428).
AddedLists(sc, c) == [k \in Keys |-> AddEach(k, sc[k], c[k], 1)]

\* e is a texture: neither null nor undefined.
IsTexture(e) == e # Null /\ e # Undefined

\* addAllToScene: scene.environmentTexture (lines 430-432).
AddedEnvironment(se, ce) == IF IsTexture(ce) THEN ce ELSE se

\* removeAllFromScene: the scene's lists after the fourteen loops (lines 443-484).
RemovedLists(sc, c) == [k \in Keys |-> RemoveEach(k, sc[k], c[k], 1)]

\* The scene's environment texture left as it is.
RemovedEnvironmentKept(se, ce) == se

\* removeAllFromScene: scene.environmentTexture (lines 486-488).
RemovedEnvironment(se, ce) == IF ce = se THEN Null ELSE se

\* The lists dispose() goes through (lines 499-557).
DisposedKeys ==
    {"cameras", "lights", "meshes", "skeletons", "animationGroups",
     "multiMaterials", "materials", "geometries", "transformNodes",
     "actionManagers", "textures", "reflectionProbes"}

\* dispose: the container's lists afterwards.
DisposedLists(c) == [k \in Keys |-> IF k \in DisposedKeys THEN << >> ELSE c[k]]

\* dispose: the objects whose dispose() is called.
DisposedObjects(c, ce) ==
    UNION {Range(c[k]) : k \in DisposedKeys}
        \cup (IF IsTexture(ce) THEN {ce} ELSE {})

\* dispose: container.environmentTexture afterwards (lines 559-562).
DisposedEnvironment(ce) == IF IsTexture(ce) THEN Null ELSE ce

\* o.dispose() takes o out of the scene's list.
SceneAfterDispose(sc, c) ==
    [k \in Keys |-> IF k \in DisposedKeys THEN RemoveEach(k, sc[k], c[k], 1)
                    ELSE sc[k]]

\* _moveAssets(sourceAssets, targetAssets, keepAssets): targetAssets after
\* the push of every source asset that is not a kept one.
RECURSIVE MoveAssetsFrom(_, _, _, _)
MoveAssetsFrom(sourceAssets, targetAssets, keepAssets, i) ==
    IF i > Len(sourceAssets) THEN targetAssets
    ELSE LET asset == sourceAssets[i]
             move == asset \notin Range(keepAssets)
         IN MoveAssetsFrom(sourceAssets,
                           IF move THEN Push(targetAssets, asset) ELSE targetAssets,
                           keepAssets, i + 1)

MoveAssets(sourceAssets, targetAssets, keepAssets) ==
    MoveAssetsFrom(sourceAssets, targetAssets, keepAssets, 1)

\* moveAllFromScene: the container's lists after the loop over its own
\* properties (lines 601-606).
MovedLists(sc, c, keep) == [k \in Keys |-> MoveAssets(sc[k], c[k], keep[k])]

\* moveAllFromScene: the container's lists when the loop has visited the
\* keys in visited only.
MovedListsUpTo(sc, c, keep, visited) ==
    [k \in Keys |-> IF k \in visited THEN MoveAssets(sc[k], c[k], keep[k]) ELSE c[k]]

\* environmentTexture is an own property of the container (line 602) unless
\* it was never assigned.
IsOwnEnvironment(ce) == ce # Undefined

\* The lists AssetContainer's constructor assigns itself, after super()
\* (line 276); the other lists are created by the base class's constructor.
ListsAssignedAfterSuper == {"reflectionProbes"}

\* for-in (line 601) visits own properties in the order they were created.
\* The lists visited before environmentTexture are all of them when the
\* property was first assigned after construction, and the base class's
\* lists alone when the base class's constructor creates it.
KeysBeforeEnvironment == {Keys, Keys \ ListsAssignedAfterSuper}

\* moveAllFromScene: container.environmentTexture after the loop.  When the
\* key is visited, null stays null and a texture stays (line 603); nothing is
\* ever pushed onto it.
MovedEnvironment(se, ce, keepEnv) == ce

\* moveAllFromScene returns: every key has been visited.
MoveReturns == [throws |-> FALSE, visited |-> Keys]

\* moveAllFromScene, key environmentTexture: _moveAssets is handed the scene's
\* texture as sourceAssets (line 604).  null returns at once (lines 570-572).
\* A texture is no array and is not iterable, and what for-of (line 574) does
\* with it depends on how the build lowers the loop: an index loop up to
\* .length (target ES5) visits nothing, the iteration protocol (ES2015 and
\* later, or downlevelIteration) throws a TypeError.  The set holds the
\* outcomes of the call: it returns, or it throws after the keys visited
\* before environmentTexture.
MoveEnvironmentThrows(se, ce) ==
    IF IsOwnEnvironment(ce) /\ se # Null
    THEN {MoveReturns} \cup
         {[throws |-> TRUE, visited |-> v] : v \in KeysBeforeEnvironment}
    ELSE {MoveReturns}

\* What a call finds: the scene and the container as they are.  "before" is
\* filled by removeAllFromScene() alone, when the call made last was
\* addAllToScene(): it then holds what that call had found.
NoCallBefore == [op |-> "none", scene |-> EmptyLists, sceneEnv |-> Null]

SnapshotWith(before) ==
    [scene |-> scene, sceneEnv |-> sceneEnv, container |-> container,
     contEnv |-> contEnv, nodes |-> nodes, before |-> before]

Snapshot == SnapshotWith(NoCallBefore)

SnapshotAfterAdd ==
    SnapshotWith(IF lastOp = "addAllToScene"
                 THEN [op |-> lastOp, scene |-> pre.scene, sceneEnv |-> pre.sceneEnv]
                 ELSE NoCallBefore)

ListsFit == \A k \in Keys : Len(scene[k]) + Len(container[k]) <= MaxListLen

AddAllToScene ==
    /\ ListsFit
    /\ scene' = AddedLists(scene, container)
    /\ sceneEnv' = AddedEnvironment(sceneEnv, contEnv)
    /\ lastOp' = "addAllToScene"
    /\ threw' = FALSE
    /\ pre' = Snapshot
    /\ UNCHANGED << container, contEnv, uniqueIdCounter, disposed, objectVars,
                    passVars, passHistory, keepArg, keepEnvArg >>

RemoveAllFromScene ==
    /\ scene' = RemovedLists(scene, container)
    /\ sceneEnv' = RemovedEnvironment(sceneEnv, contEnv)
    /\ lastOp' = "removeAllFromScene"
    /\ threw' = FALSE
    /\ pre' = SnapshotAfterAdd
    /\ UNCHANGED << container, contEnv, uniqueIdCounter, disposed, objectVars,
                    passVars, passHistory, keepArg, keepEnvArg >>

Dispose ==
    /\ disposed' = disposed \cup DisposedObjects(container, contEnv)
    /\ container' = DisposedLists(container)
    /\ contEnv' = DisposedEnvironment(contEnv)
    /\ scene' = SceneAfterDispose(scene, container)
    /\ lastOp' = "dispose"
    /\ threw' = FALSE
    /\ pre' = Snapshot
    /\ UNCHANGED << sceneEnv, uniqueIdCounter, objectVars, passVars,
                    passHistory, keepArg, keepEnvArg >>

\* The keepAssets a caller may pass: for every list a set of the scene's
\* assets, and the scene's environment texture or none.  Omitting keepAssets
\* passes a KeepAssets whose lists are empty (lines 597-599).
KeepChoices ==
    {[k \in Keys |-> SortedSeq(S \cap Range(scene[k]))] :
        S \in SUBSET UNION {Range(scene[k]) : k \in Keys}}

\* moveAllFromScene(keepAssets) (lines 595-609).  The loop copies the scene's
\* assets that are not kept into the container's lists; a throw at the key
\* environmentTexture leaves the call there, with the assets of the keys
\* visited so far copied and still in the scene, and removeAllFromScene()
\* (line 608) is not reached.
MoveAllFromScene ==
    /\ ListsFit
    /\ \E keep \in KeepChoices, keepEnv \in {Null, sceneEnv} :
       \E outcome \in MoveEnvironmentThrows(sceneEnv, contEnv) :
          LET throws == outcome.throws
              moved == IF throws
                       THEN MovedListsUpTo(scene, container, keep, outcome.visited)
                       ELSE MovedLists(scene, container, keep)
              movedEnv == MovedEnvironment(sceneEnv, contEnv, keepEnv)
          IN /\ container' = moved
             /\ contEnv' = movedEnv
             /\ scene' = IF throws THEN scene ELSE RemovedLists(scene, moved)
             /\ sceneEnv' = IF throws THEN sceneEnv
                            ELSE RemovedEnvironment(sceneEnv, movedEnv)
             /\ keepArg' = keep
             /\ keepEnvArg' = keepEnv
             /\ threw' = throws
    /\ lastOp' = "moveAllFromScene"
    /\ pre' = Snapshot
    /\ UNCHANGED << uniqueIdCounter, disposed, objectVars, passVars, passHistory >>

\* ------------------------------------------------------ the captured sets
\* The nodes of the scene: two transform nodes, a mesh, and a node that is a
\* mesh or an instance of that mesh.  A node's parent is a node created
\* before it, so the parent links form a forest.
NodeRecord(kind, parent, skeleton, manager, source) ==
    [kind |-> kind, parent |-> parent, skeleton |-> skeleton,
     morphTargetManager |-> manager, sourceMesh |-> source]

MakeNodes(p2, p3, p4, kind4, sk3, sk4, mm3, mm4) ==
    (1 :> NodeRecord("TransformNode", Null, Null, Null, Null))
    @@ (2 :> NodeRecord("TransformNode", p2, Null, Null, Null))
    @@ (3 :> NodeRecord("Mesh", p3, sk3, mm3, Null))
    @@ (4 :> IF kind4 = "Mesh"
             THEN NodeRecord("Mesh", p4, sk4, mm4, Null)
             ELSE NodeRecord("InstancedMesh", p4, Null, Null, 3))

MakeSkeletons(override5, bones5, override6) ==
    (5 :> [overrideMesh |-> override5, bones |-> bones5])
    @@ (6 :> [overrideMesh |-> override6, bones |-> << 1 >>])

TheManagers == (7 :> [i \in 1..NumMorphTargets |-> 10 + i])

MakeGroups(targets8) == (8 :> targets8) @@ (9 :> << 3 >>)

\* The objects an animation may target: a node, a mesh, a morph target, a
\* skeleton, a bone of a skeleton, or an object of another kind.
AnimationTargets ==
    {1, 3, 4} \cup OtherIds \cup MorphTargetIds \cup SkeletonIds
        \cup {BoneId(SetMax(SkeletonIds), 1)}

\* The container holds the lists given; the scene holds the other objects.
MakeContainer(tn, ms, sk, ag, mgr) ==
    [k \in Keys |->
        CASE k = "transformNodes" -> tn
          [] k = "meshes" -> ms
          [] k = "skeletons" -> sk
          [] k = "animationGroups" -> ag
          [] k = "morphTargetManagers" -> mgr
          [] OTHER -> << >>]

MakeScene(c) ==
    [k \in Keys |->
        CASE k = "transformNodes" -> SortedSeq(TransformNodeIds \ Range(c[k]))
          [] k = "meshes" -> SortedSeq(MeshIds \ Range(c[k]))
          [] k = "skeletons" -> SortedSeq(SkeletonIds \ Range(c[k]))
          [] k = "animationGroups" -> SortedSeq(AnimationGroupIds \ Range(c[k]))
          [] k = "morphTargetManagers" -> SortedSeq(ManagerIds \ Range(c[k]))
          [] OTHER -> << >>]

\* The container has no environment texture: the property is null, or was
\* never assigned.
InitRest ==
    /\ scene = MakeScene(container)
    /\ sceneEnv = Null
    /\ contEnv \in {Undefined, Null}
    /\ uniqueIdCounter = FirstFreshId
    /\ disposed = {}
    /\ pc = "idle"
    /\ idx = 0
    /\ convertionMap = << >>
    /\ storeMap = {}
    /\ result = EmptyEntries
    /\ alreadySwapped = << >>
    /\ origin = << >>
    /\ convWrites = << >>
    /\ swapCount = << >>
    /\ lastOp = "none"
    /\ keepArg = EmptyLists
    /\ keepEnvArg = Null
    /\ threw = FALSE
    /\ pre = Snapshot

\* Hierarchies: any forest over the four nodes, any captured lists of nodes.
InitHierarchy ==
    /\ \E p2 \in {Null, 1}, p3 \in {Null, 1, 2}, p4 \in {Null, 1, 2, 3},
          kind4 \in {"Mesh", "InstancedMesh"} :
          nodes = MakeNodes(p2, p3, p4, kind4, Null, Null, Null, Null)
    /\ skeletonObjs = MakeSkeletons(Null, << >>, Null)
    /\ managerObjs = TheManagers
    /\ groupObjs = MakeGroups(<< 1 >>)
    /\ \E tn \in DistinctSeqs(TransformNodeIds, 2), ms \in DistinctSeqs(MeshIds, 2) :
          container = MakeContainer(tn, ms, << >>, << >>, << >>)
    /\ InitRest

\* Skeletons: meshes bound to skeletons, override meshes, linked bones.
InitSkeletons ==
    /\ \E p3 \in {Null, 1}, p4 \in {Null, 1, 3},
          kind4 \in {"Mesh", "InstancedMesh"},
          sk3 \in {Null} \cup SkeletonIds, sk4 \in {Null} \cup SkeletonIds :
          /\ kind4 = "InstancedMesh" => sk4 = Null
          /\ nodes = MakeNodes(Null, p3, p4, kind4, sk3, sk4, Null, Null)
    /\ \E override5 \in {Null, 3, 4}, override6 \in {Null, 3},
          bones5 \in SeqsOfLen({Null, 1, 3}, 0, MaxBones) :
          skeletonObjs = MakeSkeletons(override5, bones5, override6)
    /\ managerObjs = TheManagers
    /\ groupObjs = MakeGroups(<< 1 >>)
    /\ \E tn \in {<< >>, << 1 >>}, ms \in {<< 3 >>, << 3, 4 >>, << 4, 3 >>},
          sk \in {<< 5 >>, << 6, 5 >>} :
          container = MakeContainer(tn, ms, sk, << 8 >>, << >>)
    /\ InitRest

\* Animation groups, their targets, and morph targets.
InitAnimations ==
    /\ \E p3 \in {Null, 1}, p4 \in {Null, 1, 3},
          mm3 \in {Null} \cup ManagerIds, mm4 \in {Null} \cup ManagerIds :
          nodes = MakeNodes(Null, p3, p4, "Mesh", Null, Null, mm3, mm4)
    /\ skeletonObjs = MakeSkeletons(Null, << >>, Null)
    /\ managerObjs = TheManagers
    /\ \E targets8 \in SeqsOfLen(AnimationTargets, 1, MaxTargets) :
          groupObjs = MakeGroups(targets8)
    /\ \E tn \in {<< >>, << 1 >>}, ms \in {<< 3 >>, << 3, 4 >>},
          sk \in {<< >>, << 6 >>}, ag \in {<< 8 >>, << 8, 9 >>} :
          container = MakeContainer(tn, ms, sk, ag, << 7 >>)
    /\ InitRest

Init == InitHierarchy \/ InitSkeletons \/ InitAnimations

Next ==
    \/ BeginInstantiate
    \/ TransformNodeStep
    \/ MeshStep
    \/ SkeletonStep
    \/ AnimationGroupStep

Spec == Init /\ [][Next]_vars

\* ---------------------------------------------------------- createRootMesh
\* new Mesh(name, scene): a mesh without parent, skeleton or morph targets.
NewMesh(ns, id) == ns @@ (id :> NodeRecord("Mesh", Null, Null, Null, Null))

\* rootMesh.addChild(m): m's parent becomes rootMesh.
AddChild(ns, rootMesh, m) == [ns EXCEPT ![m].parent = rootMesh]

\* One iteration of this.meshes.forEach (lines 617-621): a mesh without a
\* parent becomes a child of the root mesh, any other mesh is left alone.
RootMeshAdopts(ns, rootMesh, m) ==
    IF ns[m].parent = Null THEN AddChild(ns, rootMesh, m) ELSE ns

RECURSIVE AdoptEach(_, _, _, _)
AdoptEach(ns, rootMesh, meshes, i) ==
    IF i > Len(meshes) THEN ns
    ELSE AdoptEach(RootMeshAdopts(ns, rootMesh, meshes[i]), rootMesh, meshes, i + 1)

\* this.meshes.unshift(rootMesh)
Unshift(list, x) == << x >> \o list

\* createRootMesh() (lines 615-624).  The new mesh takes the scene's next
\* unique id and joins the scene's meshes; the call returns it.
CreateRootMesh ==
    /\ pc = "idle"
    /\ uniqueIdCounter < FirstFreshId + MaxRootMeshes
    /\ LET rootMesh == uniqueIdCounter IN
          /\ uniqueIdCounter' = rootMesh + 1
          /\ scene' = [scene EXCEPT !["meshes"] = SceneAdd("meshes", @, rootMesh)]
          /\ nodes' = AdoptEach(NewMesh(nodes, rootMesh), rootMesh,
                                container["meshes"], 1)
          /\ container' = [container EXCEPT !["meshes"] = Unshift(@, rootMesh)]
    /\ lastOp' = "createRootMesh"
    /\ threw' = FALSE
    /\ pre' = Snapshot
    /\ UNCHANGED << sceneEnv, contEnv, disposed, skeletonObjs, managerObjs,
                    groupObjs, passVars, passHistory, keepArg, keepEnvArg >>

NextRootMesh == CreateRootMesh

SpecRootMesh == InitHierarchy /\ [][NextRootMesh]_vars

\* ---------------------------------------------- the asset-list scenarios
\* The assets of the list the scenario fills, and two environment textures.
AssetIds == 1..MaxAssets
SceneTexture == MaxAssets + 1
ContainerTexture == MaxAssets + 2

\* One list of the scene and of the container is filled with assets out of
\* ids; the scene and the container share no asset (a container just loaded
\* or just created), and each has an environment texture of its own or none;
\* the container's may never have been assigned.
InitAssetsOver(ids, sceneTexture, containerTexture) ==
    /\ \E k \in Keys :
       \E s \in DistinctSeqs(ids, MaxAssets) :
       \E c \in DistinctSeqs(ids \ Range(s), MaxAssets) :
          /\ scene = [EmptyLists EXCEPT ![k] = s]
          /\ container = [EmptyLists EXCEPT ![k] = c]
    /\ sceneEnv \in {Null, sceneTexture}
    /\ contEnv \in {Undefined, Null, containerTexture}
    /\ uniqueIdCounter = containerTexture + 1
    /\ disposed = {}
    /\ nodes = << >>
    /\ skeletonObjs = << >>
    /\ managerObjs = << >>
    /\ groupObjs = << >>
    /\ pc = "idle"
    /\ idx = 0
    /\ convertionMap = << >>
    /\ storeMap = {}
    /\ result = EmptyEntries
    /\ alreadySwapped = << >>
    /\ origin = << >>
    /\ convWrites = << >>
    /\ swapCount = << >>
    /\ lastOp = "none"
    /\ keepArg = EmptyLists
    /\ keepEnvArg = Null
    /\ threw = FALSE
    /\ pre = Snapshot

InitAssets == InitAssetsOver(AssetIds, SceneTexture, ContainerTexture)

NextAssets ==
    \/ AddAllToScene
    \/ RemoveAllFromScene
    \/ Dispose
    \/ MoveAllFromScene

SpecAssets == InitAssets /\ [][NextAssets]_vars

\* ------------------------------------------------ the round-trip scenarios
\* A scene and a container that share no asset, with more assets to hold, and
\* addAllToScene and removeAllFromScene as the only calls.
RoundTripAssetIds == 1..MaxRoundTripAssets
RoundTripSceneTexture == MaxRoundTripAssets + 1
RoundTripContainerTexture == MaxRoundTripAssets + 2

InitRoundTrip ==
    InitAssetsOver(RoundTripAssetIds, RoundTripSceneTexture, RoundTripContainerTexture)

NextRoundTrip ==
    \/ AddAllToScene
    \/ RemoveAllFromScene

SpecRoundTrip == InitRoundTrip /\ [][NextRoundTrip]_vars

\* ------------------------------------------------------------ properties
IsClone(c) == c \in DOMAIN origin

\* The clones made of object x during the pass.
ClonesOf(x) == {c \in DOMAIN origin : origin[c] = x}

WasCloned(x) == ClonesOf(x) # {}

SkeletonClones == DOMAIN skeletonObjs \cap DOMAIN origin
GroupClones == DOMAIN groupObjs \cap DOMAIN origin

Swaps(c) == IF c \in DOMAIN swapCount THEN swapCount[c] ELSE 0

IsRoot(o) == pre.nodes[o].parent = Null

\* The parentless transform nodes, then the parentless meshes, of the
\* container, each in container order.
ContainerRoots ==
    SelectSeq(container["transformNodes"], IsRoot)
        \o SelectSeq(container["meshes"], IsRoot)

\* The non-instance meshes of the container bound to skeleton s before the call.
BoundMeshes(s) ==
    {m \in Range(container["meshes"]) :
        pre.nodes[m].kind = "Mesh" /\ pre.nodes[m].skeleton = s}

\* C1: the returned rootNodes list holds exactly one clone for each
\* parentless transform node and parentless mesh of the container, the
\* transform-node roots first, each in container order, nothing else, and
\* every entry has no parent.
C1_RootNodes ==
    pc = "done" =>
        /\ Len(result.rootNodes) = Len(ContainerRoots)
        /\ \A i \in 1..Len(result.rootNodes) :
              /\ IsClone(result.rootNodes[i])
              /\ origin[result.rootNodes[i]] = ContainerRoots[i]
              /\ nodes[result.rootNodes[i]].parent = Null
        /\ \A o \in Range(ContainerRoots) :
              Cardinality({i \in 1..Len(result.rootNodes) :
                              origin[result.rootNodes[i]] = o}) = 1

C1_Witness ==
    /\ pc = "done"
    /\ Len(result.rootNodes) = 2
    /\ nodes[result.rootNodes[1]].kind = "TransformNode"
    /\ nodes[result.rootNodes[2]].kind = "Mesh"
    /\ \E o \in Range(container["transformNodes"]) : ~IsRoot(o)
    /\ \E o \in Range(container["meshes"]) : ~IsRoot(o)

\* C2: after the call, the clone of every non-instance mesh of the container
\* that is bound to a skeleton of the container is bound to the clone of that
\* skeleton, and the mesh itself is still bound to the skeleton.
C2_SkeletonRebound ==
    pc = "done" =>
        \A s \in Range(container["skeletons"]) : \A m \in BoundMeshes(s) :
            /\ Cardinality(ClonesOf(m)) = 1
            /\ Cardinality(ClonesOf(s)) = 1
            /\ \A c \in ClonesOf(m) :
                  nodes[c].skeleton \in ClonesOf(s) /\ nodes[c].skeleton # s
            /\ nodes[m].skeleton = s

C2_Witness ==
    /\ pc = "done"
    /\ \E s \in Range(container["skeletons"]) :
          /\ Cardinality(BoundMeshes(s)) = 2
          /\ \E m \in BoundMeshes(s) : ~IsRoot(m)

\* C3: the override mesh of the clone of a skeleton that has an override mesh
\* is the clone of that mesh when the mesh was cloned during the pass, and is
\* undefined when it was not; an unresolved override mesh raises no error
\* (the call throws only at a bound mesh that has no clone).
C3_OverrideMesh ==
    /\ \A c \in SkeletonClones :
          LET o == skeletonObjs[origin[c]].overrideMesh IN
          o # Null =>
              IF WasCloned(o)
              THEN skeletonObjs[c].overrideMesh \in ClonesOf(o)
              ELSE skeletonObjs[c].overrideMesh = Undefined
    /\ pc = "thrown" =>
          \E m \in BoundMeshes(container["skeletons"][idx]) : ~WasCloned(m)

C3_Witness ==
    /\ pc = "done"
    /\ \E c \in SkeletonClones :
          /\ skeletonObjs[origin[c]].overrideMesh # Null
          /\ skeletonObjs[c].overrideMesh = Undefined
    /\ \E c \in SkeletonClones :
          /\ skeletonObjs[origin[c]].overrideMesh # Null
          /\ skeletonObjs[c].overrideMesh \in ClonesOf(skeletonObjs[origin[c]].overrideMesh)

\* C4 as stated: in a call that returns, the rewriting of the bone links has
\* run exactly once for every cloned skeleton, also for one no mesh is bound to.
C4_SwappedExactlyOnce ==
    pc = "done" => \A c \in SkeletonClones : Swaps(c) = 1

\* C4 as amended: the rewriting of the bone links runs at most once for every
\* cloned skeleton; in a call that returns it has run once when at least one
\* non-instance mesh of the container is bound to the original skeleton, and
\* not at all when none is.
C4_SwappedAtMostOnce ==
    /\ \A c \in SkeletonClones : Swaps(c) <= 1
    /\ pc = "done" =>
          \A c \in SkeletonClones :
              Swaps(c) = IF BoundMeshes(origin[c]) # {} THEN 1 ELSE 0

C4_Witness ==
    /\ pc = "done"
    /\ \E c \in SkeletonClones :
          Cardinality(BoundMeshes(origin[c])) = 2 /\ Swaps(c) = 1
    /\ \E c \in SkeletonClones :
          BoundMeshes(origin[c]) = {} /\ Swaps(c) = 0

\* C5 as stated: every target of the clone of an animation group of the
\* container is a clone of the original group's target when that target was
\* cloned during the pass, and the original target otherwise; the returned
\* animationGroups list holds one clone per animation group of the container,
\* in order.
C5_AnimationTargets ==
    /\ \A c \in GroupClones :
          LET o == origin[c] IN
          /\ Len(groupObjs[c]) = Len(groupObjs[o])
          /\ \A i \in 1..Len(groupObjs[o]) :
                IF WasCloned(groupObjs[o][i])
                THEN groupObjs[c][i] \in ClonesOf(groupObjs[o][i])
                ELSE groupObjs[c][i] = groupObjs[o][i]
    /\ pc = "done" =>
          /\ Len(result.animationGroups) = Len(container["animationGroups"])
          /\ \A i \in 1..Len(result.animationGroups) :
                /\ result.animationGroups[i] \in GroupClones
                /\ origin[result.animationGroups[i]] = container["animationGroups"][i]

\* C6 as stated: the call never raises an error.
C6_NeverThrows == pc # "thrown"

\* The three places where a reference of a clone is looked up in the tables.
\* A miss at the override mesh of a cloned skeleton:
OverrideMisses ==
    {c \in SkeletonClones :
        /\ skeletonObjs[origin[c]].overrideMesh # Null
        /\ ~WasCloned(skeletonObjs[origin[c]].overrideMesh)}
\* A miss at a linked bone of a cloned skeleton whose bones were rewritten:
LinkMisses ==
    UNION {{<< c, i >> : i \in {j \in 1..Len(skeletonObjs[origin[c]].bones) :
                                  /\ Swaps(c) > 0
                                  /\ skeletonObjs[origin[c]].bones[j] # Null
                                  /\ ~WasCloned(skeletonObjs[origin[c]].bones[j])}}
           : c \in SkeletonClones}
\* A miss at a target of a cloned animation group:
TargetMisses ==
    UNION {{<< c, i >> : i \in {j \in 1..Len(groupObjs[origin[c]]) :
                                  ~WasCloned(groupObjs[origin[c]][j])}}
           : c \in GroupClones}

\* C7 as stated: at each of the three places a miss leaves the clone's
\* reference pointing at the original object.
C7_MissKeepsOriginal ==
    /\ \A c \in OverrideMisses :
          skeletonObjs[c].overrideMesh = skeletonObjs[origin[c]].overrideMesh
    /\ \A x \in LinkMisses :
          skeletonObjs[x[1]].bones[x[2]] = skeletonObjs[origin[x[1]]].bones[x[2]]
    /\ \A x \in TargetMisses :
          groupObjs[x[1]][x[2]] = groupObjs[origin[x[1]]][x[2]]

\* C7 as amended: a miss at an animation target leaves the clone's target
\* pointing at the original object; a miss at the override mesh, or at a
\* linked bone when the bones are rewritten, leaves the clone's reference
\* undefined.
C7_MissPerSite ==
    /\ \A c \in OverrideMisses : skeletonObjs[c].overrideMesh = Undefined
    /\ \A x \in LinkMisses : skeletonObjs[x[1]].bones[x[2]] = Undefined
    /\ \A x \in TargetMisses :
          groupObjs[x[1]][x[2]] = groupObjs[origin[x[1]]][x[2]]

C7_Witness ==
    /\ pc = "done"
    /\ OverrideMisses # {}
    /\ LinkMisses # {}
    /\ TargetMisses # {}

\* The clones the translation table is meant to hold: of nodes, of meshes and
\* of morph targets.
TableClones ==
    {c \in DOMAIN origin : origin[c] \in NodeIds \cup MorphTargetIds}

\* C8 as stated: every clone of a node, mesh or morph target has exactly one
\* entry in the translation table, and no entry is written a second time.
C8_WriteOnce ==
    pc # "idle" =>
        /\ \A c \in TableClones :
              Cardinality({k \in DOMAIN convertionMap : convertionMap[k] = c}) = 1
        /\ \A k \in DOMAIN convWrites : convWrites[k] <= 1

\* C9 as stated: after moveAllFromScene(keepAssets) every asset that was in
\* the scene and is not a kept one is held by the container and is no longer
\* in the scene, and every kept asset is still in the scene and is not held
\* by the container; the environment texture is an asset of the scene.
C9_AllMoved ==
    lastOp = "moveAllFromScene" =>
        /\ \A k \in Keys : \A a \in Range(pre.scene[k]) :
              IF a \in Range(keepArg[k])
              THEN a \in Range(scene[k]) /\ a \notin Range(container[k])
              ELSE a \in Range(container[k]) /\ a \notin Range(scene[k])
        /\ pre.sceneEnv # Null =>
              IF keepEnvArg = pre.sceneEnv
              THEN sceneEnv = pre.sceneEnv /\ contEnv # pre.sceneEnv
              ELSE contEnv = pre.sceneEnv /\ sceneEnv # pre.sceneEnv

\* C10 as stated: after dispose() every asset the container held in one of
\* its asset lists, and its environment texture, has been disposed, every
\* asset list of the container is empty and its environment texture is null.
C10_AllDisposed ==
    lastOp = "dispose" =>
        /\ \A k \in Keys : Range(pre.container[k]) \subseteq disposed
        /\ IsTexture(pre.contEnv) => pre.contEnv \in disposed
        /\ \A k \in Keys : container[k] = << >>
        /\ ~IsTexture(contEnv)

\* Mesh m has mesh a as its parent or as a parent of one of its ancestors.
RECURSIVE IsDescendantOf(_, _)
IsDescendantOf(m, a) ==
    LET p == nodes[m].parent IN
    IF p = Null THEN FALSE ELSE p = a \/ IsDescendantOf(p, a)

\* The mesh the last createRootMesh() call created and returned.
ReturnedRootMesh == uniqueIdCounter - 1

\* C11 as stated: after createRootMesh() the returned root mesh is the first
\* of the container's meshes, the other meshes follow in their previous
\* order, and every mesh the container held before the call is a child or a
\* descendant of the root mesh, also on a repeated call.
C11_RootMeshHoldsAll ==
    lastOp = "createRootMesh" =>
        /\ container["meshes"][1] = ReturnedRootMesh
        /\ Tail(container["meshes"]) = pre.container["meshes"]
        /\ \A m \in Range(pre.container["meshes"]) :
              IsDescendantOf(m, ReturnedRootMesh)

\* C12: at any point of the call every skeleton of the container has been
\* cloned at most once and the result's skeletons list holds, in container
\* order, the clones of the skeletons visited so far; when the call returns
\* every skeleton of the container, bound to a mesh of the container or not,
\* has exactly one clone and the list holds them all; and whenever a skeleton
\* or an animation group has been cloned, every parentless transform node and
\* mesh of the container has been cloned and is a key of the translation
\* table that leads to its clone.
C12_SkeletonsAfterRoots ==
    /\ \A s \in Range(container["skeletons"]) : Cardinality(ClonesOf(s)) <= 1
    /\ pc # "idle" =>
          /\ Len(result.skeletons) <= Len(container["skeletons"])
          /\ \A i \in 1..Len(result.skeletons) :
                /\ IsClone(result.skeletons[i])
                /\ origin[result.skeletons[i]] = container["skeletons"][i]
    /\ pc = "done" =>
          /\ Len(result.skeletons) = Len(container["skeletons"])
          /\ \A s \in Range(container["skeletons"]) : Cardinality(ClonesOf(s)) = 1
    /\ SkeletonClones \cup GroupClones # {} =>
          \A o \in Range(ContainerRoots) :
              /\ WasCloned(o)
              /\ o \in DOMAIN convertionMap
              /\ convertionMap[o] \in ClonesOf(o)

\* A call has returned that cloned two skeletons, one bound to a mesh of the
\* container and one bound to none, and an animation group, after the clones
\* of a parentless transform node and a parentless mesh.
C12_Witness ==
    /\ pc = "done"
    /\ Len(result.skeletons) = 2
    /\ \E s \in Range(container["skeletons"]) : BoundMeshes(s) = {}
    /\ \E s \in Range(container["skeletons"]) : BoundMeshes(s) # {}
    /\ GroupClones # {}
    /\ \E o \in Range(container["transformNodes"]) : IsRoot(o)
    /\ \E o \in Range(container["meshes"]) : IsRoot(o)

\* removeAllFromScene() has just been called, directly after addAllToScene()
\* was called on a scene that shared no asset and no environment texture with
\* the container.  pre.before holds what addAllToScene() found; neither call
\* changes the container.
IsRoundTrip ==
    /\ lastOp = "removeAllFromScene"
    /\ pre.before.op = "addAllToScene"
    /\ \A k \in Keys : Range(pre.before.scene[k]) \cap Range(container[k]) = {}
    /\ ~IsTexture(contEnv) \/ contEnv # pre.before.sceneEnv

\* C13 as stated: addAllToScene() followed by removeAllFromScene() leaves the
\* asset lists and the environment texture of a scene that shares no asset
\* with the container exactly as they were before addAllToScene().
C13_RoundTrip ==
    IsRoundTrip =>
        /\ scene = pre.before.scene
        /\ sceneEnv = pre.before.sceneEnv

\* C13, amended: the round trip leaves the scene's asset lists exactly as they
\* were; the scene's environment texture is as it was when the container has
\* no environment texture and is null when the container has one, whatever
\* the scene's own environment texture was.
C13_RoundTripButEnvironment ==
    IsRoundTrip =>
        /\ scene = pre.before.scene
        /\ sceneEnv = IF IsTexture(contEnv) THEN Null ELSE pre.before.sceneEnv

\* A round trip on a scene with an asset and an environment texture of its
\* own, with a container of two assets and an environment texture: the first
\* asset removed is not the last of the scene's list.
C13_Witness ==
    /\ IsRoundTrip
    /\ pre.before.sceneEnv = RoundTripSceneTexture
    /\ contEnv = RoundTripContainerTexture
    /\ \E k \in Keys :
          /\ Len(pre.before.scene[k]) >= 1
          /\ Len(container[k]) >= 2
          /\ k \in SwapRemoved

\* C14 as stated: after any sequence of addAllToScene(), removeAllFromScene()
\* and moveAllFromScene() calls (nothing has been disposed) no asset appears
\* more than once in any asset list of the container.
C14_NoDuplicates ==
    disposed = {} =>
        \A k \in Keys : Cardinality(Range(container[k])) = Len(container[k])

====
